---- MODULE Spec2Model ----
(***************************************************************************)
(* redis-wizard: namespaced CRUD / expiration operations over a remote     *)
(* key-value store, the JSON codec on the value path, and the process-wide *)
(* connection manager.                                                     *)
(*                                                                         *)
(* Eight specifications share the variables:                               *)
(*   Spec       the CRUD / expiration operations of two concurrent callers *)
(*              on a connected manager;                                    *)
(*   SpecCodec  one caller writing and reading values of every kind        *)
(*              (the serialization round trip);                            *)
(*   SpecConn   the connection manager and the events of its handles;      *)
(*   SpecEnv    the initialization under every setting of the environment; *)
(*   SpecRetry  the reconnection attempts of one handle, counted;          *)
(*   SpecLog    the log lines of an initialization under endpoint URLs     *)
(*              with and without credentials;                              *)
(*   SpecFrame  one caller reaching two entries through three (binding,    *)
(*              key) pairs;                                                *)
(*   SpecFault  one caller of the services with a manager whose            *)
(*              initializations and commands can fail.                     *)
(***************************************************************************)
EXTENDS Integers, Sequences, FiniteSets, TLC

VARIABLES
    store,        \* the remote store: full key -> [present, val, ttl]
    written,      \* history: the create whose write is still the last change of a key
    upd,          \* per caller: an update between its read and its write
    evt,          \* the operation that completed last, with its result
    redisClient,  \* config.ts `redisClient`: a handle id, or NoClient
    isConnected,  \* config.ts `isConnected`
    handles,      \* every handle createClient has made: id -> its socket state
    task,         \* per manager caller: the call in flight and its await point
    cevt,         \* the manager call that completed last, with its result
    env           \* process.env: the REDIS_* variables

vars ==
    <<store, written, upd, evt, redisClient, isConnected, handles, task, cevt, env>>

storeVars == <<store, written, upd, evt>>
connVars == <<redisClient, isConnected, handles, task, cevt, env>>

-----------------------------------------------------------------------------
(* Bounds of the model.                                                    *)

\* expireSeconds arguments and defaults are drawn from -1 .. MaxExpire
MaxExpire == 2
\* createClient is called at most MaxHandles times in a run
MaxHandles == 2
\* failed attempts to connect that are followed, for each handle
MaxAttempts == 12

-----------------------------------------------------------------------------
(* JavaScript values.  A value is a record tagged by t:                    *)
(*   "str" (s: sequence of characters), "num" (n), "obj" (e: sequence of   *)
(*   <<key, value>> in insertion order, keys unique), "arr" (e: sequence   *)
(*   of values), "null", "undef", "err" (a thrown error, m: its kind).     *)
(* A wire string is a sequence of one-character strings.                   *)

JsStr(s) == [t |-> "str", s |-> s]
JsNum(n) == [t |-> "num", n |-> n]
JsObj(e) == [t |-> "obj", e |-> e]
JsArr(e) == [t |-> "arr", e |-> e]
JsBool(b) == [t |-> "bool", b |-> b]
JsNull == [t |-> "null"]
JsUndefined == [t |-> "undef"]
JsError(m) == [t |-> "err", m |-> m]

\* the characters of a name (names are kept whole: one element)
Chars(name) == <<name>>

Digits == <<"0", "1", "2", "3", "4", "5", "6", "7", "8", "9">>
DigitChars == {Digits[i] : i \in 1..10}
DigitVal(c) == (CHOOSE i \in 1..10 : Digits[i] = c) - 1

\* whitespace JSON.parse skips
JsonWs == {" ", "\n", "\t", "\r"}
\* whitespace String.prototype.trim strips: JSON's and more ("nbsp" stands
\* for U+00A0, one character that trim strips and JSON.parse rejects)
TrimWs == JsonWs \cup {"nbsp"}

RECURSIVE NumToWire(_)
NumToWire(n) ==
    IF n < 10 THEN <<Digits[n + 1]>>
    ELSE NumToWire(n \div 10) \o <<Digits[(n % 10) + 1]>>

\* obj[key] = val: an existing key keeps its position, a new key is appended
Put(entries, key, val) ==
    IF \E i \in 1..Len(entries) : entries[i][1] = key
    THEN [i \in 1..Len(entries) |->
            IF entries[i][1] = key THEN <<key, val>> ELSE entries[i]]
    ELSE Append(entries, <<key, val>>)

HasKey(entries, key) == \E i \in 1..Len(entries) : entries[i][1] = key
Lookup(entries, key) == entries[CHOOSE i \in 1..Len(entries) : entries[i][1] = key][2]
KeysOf(entries) == {entries[i][1] : i \in 1..Len(entries)}

RECURSIVE JsonStringify(_), StringifyMembers(_, _), StringifyElements(_, _)
JsonStringify(v) ==
    CASE v.t = "str" -> <<"\"">> \o v.s \o <<"\"">>
      [] v.t = "num" -> NumToWire(v.n)
      [] v.t = "obj" -> <<"{">> \o StringifyMembers(v.e, 1) \o <<"}">>
      [] v.t = "arr" -> <<"[">> \o StringifyElements(v.e, 1) \o <<"]">>
      [] OTHER -> <<"n", "u", "l", "l">>
StringifyMembers(e, i) ==
    IF i > Len(e) THEN <<>>
    ELSE (IF i > 1 THEN <<",">> ELSE <<>>)
         \o <<"\"">> \o e[i][1] \o <<"\"", ":">> \o JsonStringify(e[i][2])
         \o StringifyMembers(e, i + 1)
StringifyElements(e, i) ==
    IF i > Len(e) THEN <<>>
    ELSE (IF i > 1 THEN <<",">> ELSE <<>>)
         \o JsonStringify(e[i]) \o StringifyElements(e, i + 1)

(* JSON.parse over the grammar the model's strings exercise: objects,      *)
(* arrays, numbers without sign, fraction or exponent, strings without     *)
(* escapes, null; whitespace between tokens.  A parse result is            *)
(* [ok, v, i]: i is the position after the value.                          *)
ParseFail == [ok |-> FALSE, v |-> JsNull, i |-> 0]
ParseOk(v, i) == [ok |-> TRUE, v |-> v, i |-> i]
CharAt(w, i) == IF i >= 1 /\ i <= Len(w) THEN w[i] ELSE "EOF"

RECURSIVE SkipWs(_, _)
SkipWs(w, i) == IF CharAt(w, i) \in JsonWs THEN SkipWs(w, i + 1) ELSE i

RECURSIVE StringEnd(_, _)
\* the position of the closing quote of a string literal whose first
\* character is at i, or 0
StringEnd(w, i) ==
    LET c == CharAt(w, i) IN
    IF c = "\"" THEN i
    ELSE IF c \in {"EOF", "\\", "\n", "\t", "\r"} THEN 0
    ELSE StringEnd(w, i + 1)

ParseString(w, i) ==
    IF CharAt(w, i) # "\"" THEN ParseFail
    ELSE LET j == StringEnd(w, i + 1) IN
         IF j = 0 THEN ParseFail
         ELSE ParseOk(JsStr(SubSeq(w, i + 1, j - 1)), j + 1)

RECURSIVE NumberEnd(_, _)
NumberEnd(w, i) == IF CharAt(w, i) \in DigitChars THEN NumberEnd(w, i + 1) ELSE i

RECURSIVE DigitsVal(_, _, _)
DigitsVal(w, i, j) ==
    IF j < i THEN 0 ELSE DigitsVal(w, i, j - 1) * 10 + DigitVal(w[j])

ParseNumber(w, i) ==
    IF CharAt(w, i) \notin DigitChars THEN ParseFail
    ELSE IF w[i] = "0" THEN ParseOk(JsNum(0), i + 1)
    ELSE LET j == NumberEnd(w, i) IN ParseOk(JsNum(DigitsVal(w, i, j - 1)), j)

RECURSIVE ParseValue(_, _), ParseMembers(_, _, _), ParseElements(_, _, _)
ParseValue(w, i0) ==
    LET i == SkipWs(w, i0)
        c == CharAt(w, i)
    IN  CASE c = "{" ->
               LET j == SkipWs(w, i + 1) IN
               IF CharAt(w, j) = "}" THEN ParseOk(JsObj(<<>>), j + 1)
               ELSE ParseMembers(w, j, <<>>)
          [] c = "[" ->
               LET j == SkipWs(w, i + 1) IN
               IF CharAt(w, j) = "]" THEN ParseOk(JsArr(<<>>), j + 1)
               ELSE ParseElements(w, j, <<>>)
          [] c = "\"" -> ParseString(w, i)
          [] c \in DigitChars -> ParseNumber(w, i)
          [] c = "n" ->
               IF i + 3 <= Len(w) /\ SubSeq(w, i, i + 3) = <<"n", "u", "l", "l">>
               THEN ParseOk(JsNull, i + 4) ELSE ParseFail
          [] OTHER -> ParseFail
ParseMembers(w, i, acc) ==
    LET k == ParseString(w, i) IN
    IF ~k.ok THEN ParseFail
    ELSE LET c == SkipWs(w, k.i) IN
         IF CharAt(w, c) # ":" THEN ParseFail
         ELSE LET v == ParseValue(w, c + 1) IN
              IF ~v.ok THEN ParseFail
              ELSE LET d == SkipWs(w, v.i)
                       acc2 == Put(acc, k.v.s, v.v)
                   IN  IF CharAt(w, d) = "," THEN ParseMembers(w, SkipWs(w, d + 1), acc2)
                       ELSE IF CharAt(w, d) = "}" THEN ParseOk(JsObj(acc2), d + 1)
                       ELSE ParseFail
ParseElements(w, i, acc) ==
    LET v == ParseValue(w, i) IN
    IF ~v.ok THEN ParseFail
    ELSE LET d == SkipWs(w, v.i)
             acc2 == Append(acc, v.v)
         IN  IF CharAt(w, d) = "," THEN ParseElements(w, d + 1, acc2)
             ELSE IF CharAt(w, d) = "]" THEN ParseOk(JsArr(acc2), d + 1)
             ELSE ParseFail

\* JSON.parse(w): the whole text is one value; a failure is a thrown SyntaxError
JsonParse(w) ==
    LET r == ParseValue(w, 1) IN
    IF r.ok /\ SkipWs(w, r.i) = Len(w) + 1 THEN r ELSE ParseFail

RECURSIVE TrimStart(_), TrimEnd(_)
TrimStart(w) == IF w # <<>> /\ Head(w) \in TrimWs THEN TrimStart(Tail(w)) ELSE w
TrimEnd(w) ==
    IF w # <<>> /\ w[Len(w)] \in TrimWs THEN TrimEnd(SubSeq(w, 1, Len(w) - 1)) ELSE w
Trim(w) == TrimEnd(TrimStart(w))

StartsWith(w, c) == w # <<>> /\ w[1] = c
EndsWith(w, c) == w # <<>> /\ w[Len(w)] = c

\* create: typeof value === "string" ? value : JSON.stringify(value)
Serialize(v) == IF v.t = "str" THEN v.s ELSE JsonStringify(v)

\* read: the bracket test on the trimmed string
LooksJson(w) ==
    LET trimmedValue == Trim(w) IN
    \/ StartsWith(trimmedValue, "{") /\ EndsWith(trimmedValue, "}")
    \/ StartsWith(trimmedValue, "[") /\ EndsWith(trimmedValue, "]")

\* read: what a stored string is returned as
Deserialize_AlwaysParse(w) ==
    LET parsed == JsonParse(w) IN IF parsed.ok THEN parsed.v ELSE JsStr(w)

Deserialize_ParseTrimmed(w) ==
    IF LooksJson(w)
    THEN LET parsed == JsonParse(Trim(w)) IN IF parsed.ok THEN parsed.v ELSE JsStr(w)
    ELSE JsStr(w)

Deserialize(w) ==
    IF LooksJson(w)
    THEN LET parsed == JsonParse(w) IN IF parsed.ok THEN parsed.v ELSE JsStr(w)
    ELSE JsStr(w)

RECURSIVE DeepEqual(_, _)
DeepEqual(x, y) ==
    /\ x.t = y.t
    /\ CASE x.t = "obj" ->
              /\ KeysOf(x.e) = KeysOf(y.e)
              /\ \A k \in KeysOf(x.e) : DeepEqual(Lookup(x.e, k), Lookup(y.e, k))
         [] x.t = "arr" ->
              /\ Len(x.e) = Len(y.e)
              /\ \A i \in 1..Len(x.e) : DeepEqual(x.e[i], y.e[i])
         [] OTHER -> x = y

\* the own enumerable properties a spread copies, in order
OwnEntries(v) ==
    CASE v.t = "obj" -> v.e
      [] v.t = "arr" -> [i \in 1..Len(v.e) |-> <<NumToWire(i - 1), v.e[i]>>]
      [] v.t = "str" -> [i \in 1..Len(v.s) |-> <<NumToWire(i - 1), JsStr(<<v.s[i]>>)>>]
      [] OTHER -> <<>>

RECURSIVE PutAll(_, _, _)
PutAll(entries, more, i) ==
    IF i > Len(more) THEN entries
    ELSE PutAll(Put(entries, more[i][1], more[i][2]), more, i + 1)

\* update: { ...existing, ...partial }
Spread_ExistingWins(existing, partial) ==
    JsObj(PutAll(PutAll(<<>>, OwnEntries(partial), 1), OwnEntries(existing), 1))

Spread(existing, partial) ==
    JsObj(PutAll(PutAll(<<>>, OwnEntries(existing), 1), OwnEntries(partial), 1))

-----------------------------------------------------------------------------
(* The remote store, as the client's commands see it.  An entry is         *)
(* [present, val, ttl]; ttl counts the seconds left, NoTtl when the key    *)
(* does not expire.                                                        *)

\* the TTL command's replies for a key without expiration and for no key
NoTtl == -1
NoKey == -2

Missing == [present |-> FALSE, val |-> <<>>, ttl |-> NoTtl]
Entry(w, ttl) == [present |-> TRUE, val |-> w, ttl |-> ttl]

\* `${table}:${key}`
FullKey(table, key) == table \o <<":">> \o key

\* an optional number: <<>> is undefined, <<n>> is n
Given(opt) == opt # <<>>
\* a ?? b
Nullish(a, b) == IF Given(a) THEN a ELSE b

\* client.get(fullKey): the stored string, or null
RedisGet(s, fk) == IF s[fk].present THEN JsStr(s[fk].val) ELSE JsNull

\* client.set(fullKey, serialized): SET discards the key's expiration
RedisSet(s, fk, w) == [ok |-> TRUE, s |-> [s EXCEPT ![fk] = Entry(w, NoTtl)]]

\* client.setEx(fullKey, seconds, serialized): value and expiration in one
\* command; a non-positive expire time is refused by the store
RedisSetEx_Longer(s, fk, seconds, w) ==
    IF seconds <= 0 THEN [ok |-> FALSE, s |-> s]
    ELSE [ok |-> TRUE, s |-> [s EXCEPT ![fk] = Entry(w, seconds + 1)]]

RedisSetEx(s, fk, seconds, w) ==
    IF seconds <= 0 THEN [ok |-> FALSE, s |-> s]
    ELSE [ok |-> TRUE, s |-> [s EXCEPT ![fk] = Entry(w, seconds)]]

\* client.del(fullKey): the number of keys removed
RedisDel_FlushAll(s, fk) ==
    [n |-> IF s[fk].present THEN 1 ELSE 0, s |-> [k \in DOMAIN s |-> Missing]]

RedisDel(s, fk) ==
    [n |-> IF s[fk].present THEN 1 ELSE 0, s |-> [s EXCEPT ![fk] = Missing]]

\* client.exists(fullKey): the number of keys found
RedisExists(s, fk) == IF s[fk].present THEN 1 ELSE 0

\* client.expire(fullKey, seconds): 0 when there is no key; a timeout that
\* is not positive deletes the key instead of expiring it
RedisExpire_MissingOk(s, fk, seconds) ==
    IF ~s[fk].present THEN [n |-> 1, s |-> s]
    ELSE IF seconds <= 0 THEN [n |-> 1, s |-> [s EXCEPT ![fk] = Missing]]
    ELSE [n |-> 1, s |-> [s EXCEPT ![fk].ttl = seconds]]

RedisExpire(s, fk, seconds) ==
    IF ~s[fk].present THEN [n |-> 0, s |-> s]
    ELSE IF seconds <= 0 THEN [n |-> 1, s |-> [s EXCEPT ![fk] = Missing]]
    ELSE [n |-> 1, s |-> [s EXCEPT ![fk].ttl = seconds]]

\* client.ttl(fullKey)
RedisTtl(s, fk) == IF ~s[fk].present THEN NoKey ELSE s[fk].ttl

-----------------------------------------------------------------------------
(* The services.  Each maps the store to [s, ret]: the store after the     *)
(* call and what the call returns (JsError: what it throws).               *)

\* services/read.ts
CoreRead_EmptyString(s, table, key) ==
    LET value == RedisGet(s, FullKey(table, key)) IN
    [s |-> s, ret |-> IF value = JsNull THEN JsStr(<<>>) ELSE Deserialize(value.s)]

CoreRead(s, table, key) ==
    LET value == RedisGet(s, FullKey(table, key)) IN
    [s |-> s, ret |-> IF value = JsNull THEN JsNull ELSE Deserialize(value.s)]

\* services/create.ts
CoreCreate_KeepTtl(s, table, key, value, expireSeconds) ==
    LET fullKey == FullKey(table, key)
        serialized == Serialize(value)
        r == IF Given(expireSeconds)
             THEN RedisSetEx(s, fullKey, expireSeconds[1], serialized)
             ELSE [ok |-> TRUE,
                   s |-> [s EXCEPT ![fullKey] = Entry(serialized, s[fullKey].ttl)]]
    IN  [s |-> r.s, ret |-> IF r.ok THEN JsUndefined ELSE JsError("ReplyError")]

CoreCreate(s, table, key, value, expireSeconds) ==
    LET fullKey == FullKey(table, key)
        serialized == Serialize(value)
        r == IF Given(expireSeconds)
             THEN RedisSetEx(s, fullKey, expireSeconds[1], serialized)
             ELSE RedisSet(s, fullKey, serialized)
    IN  [s |-> r.s, ret |-> IF r.ok THEN JsUndefined ELSE JsError("ReplyError")]

\* services/delete.ts
CoreDelete_AlwaysTrue(s, table, key) ==
    LET result == RedisDel(s, FullKey(table, key)) IN
    [s |-> result.s, ret |-> JsBool(TRUE)]

CoreDelete(s, table, key) ==
    LET result == RedisDel(s, FullKey(table, key)) IN
    [s |-> result.s, ret |-> JsBool(result.n > 0)]

\* services/exists.ts
CoreExists(s, table, key) ==
    [s |-> s, ret |-> JsBool(RedisExists(s, FullKey(table, key)) > 0)]

\* services/setExpire.ts
CoreSetExpire_OffByOne(s, table, key, seconds) ==
    LET result == RedisExpire(s, FullKey(table, key), seconds + 1) IN
    [s |-> result.s, ret |-> JsBool(result.n # 0)]

CoreSetExpire(s, table, key, seconds) ==
    LET result == RedisExpire(s, FullKey(table, key), seconds) IN
    [s |-> result.s, ret |-> JsBool(result.n # 0)]

\* services/getTtl.ts
CoreGetTtl_Raw(s, table, key) ==
    LET ttl == RedisTtl(s, FullKey(table, key)) IN
    [s |-> s, ret |-> JsNum(ttl)]

CoreGetTtl(s, table, key) ==
    LET ttl == RedisTtl(s, FullKey(table, key)) IN
    [s |-> s, ret |-> IF ttl >= 0 THEN JsNum(ttl) ELSE JsNull]

\* createRedis: expireSeconds ?? cacheExpired
EffectiveExpire_ArgOnly(expireSeconds, cacheExpired) == expireSeconds

EffectiveExpire(expireSeconds, cacheExpired) == Nullish(expireSeconds, cacheExpired)

-----------------------------------------------------------------------------
(* Callers, bindings and the values they pass.                             *)

Procs == {"p1", "p2"}

\* createRedis({table}) and createRedis({table, cacheExpired})
PlainBinding == [table |-> <<"a">>, cacheExpired |-> <<>>]
CachedBinding == [table |-> <<"a", ":", "b">>, cacheExpired |-> <<MaxExpire>>]

\* the (binding, key) pairs the concurrent callers use: both name the
\* entry a:b:c
Calls ==
    { <<PlainBinding, <<"b", ":", "c">>>>,
      <<CachedBinding, <<"c">>>> }
\* the pair the caller of SpecCodec uses: the entry a:c
CodecCall == <<PlainBinding, <<"c">>>>
FullKeys == {FullKey(c[1].table, c[2]) : c \in Calls \cup {CodecCall}}

FieldA == <<"a">>
FieldB == <<"b">>

\* the records the concurrent callers create
RecordVals ==
    { JsObj(<< <<FieldA, JsNum(1)>> >>),
      JsObj(<< <<FieldA, JsNum(1)>>, <<FieldB, JsNum(1)>> >>) }
\* update's arguments (partial, expireSeconds): the partial overwrites
\* field a or sets field b
PartialVals ==
    { JsObj(<< <<FieldA, JsNum(2)>> >>),
      JsObj(<< <<FieldB, JsNum(1)>> >>) }
UpdateArgs == PartialVals \X {<<>>, <<1>>}

\* expireSeconds arguments of create: omitted, or a number
ExpireArgs == {<<>>, <<0>>, <<MaxExpire>>}
\* seconds arguments of setExpire
SecondsArgs == -1..MaxExpire

\* the values the caller of SpecCodec creates: records and arrays of
\* JSON values, strings of every shape, numbers, null
CodecVals ==
    { JsObj(<<>>),
      JsObj(<< <<FieldA, JsNum(1)>> >>),
      JsObj(<< <<FieldB, JsNum(12)>>, <<FieldA, JsStr(<<"x">>)>> >>),
      JsObj(<< <<FieldA, JsObj(<< <<FieldB, JsNull>> >>)>> >>),
      JsArr(<<>>),
      JsArr(<<JsNum(1), JsStr(<<"x", " ", "y">>)>>),
      JsArr(<<JsObj(<< <<FieldA, JsNum(1)>> >>), JsArr(<<JsNum(0)>>)>>),
      JsStr(<<>>),
      JsStr(<<"a", "b">>),
      JsStr(<<"1", "2">>),
      JsStr(<<"n", "u", "l", "l">>),
      JsStr(<<" ", "a", " ">>),
      JsStr(<<"{">>),
      JsStr(<<"{", "a", "}">>),
      JsStr(<<"[", "1", ",", "]">>),
      JsStr(<<"{", "}">>),
      JsStr(<<"{", "\"", "a", "\"", ":", "1", "}">>),
      JsStr(<<" ", "[", "1", "]", "\n">>),
      JsStr(<<"nbsp", "[", "1", "]">>),
      JsStr(<<"[", "1", "]", "x">>),
      JsNum(1),
      JsNum(12),
      JsNull }

\* what is known of a key's last write: the value, and for a create with
\* an expiration s the seconds that have passed since (s = 0: none)
NotWritten == [has |-> FALSE, v |-> JsNull, s |-> 0, age |-> 0]
Written(v) == [has |-> TRUE, v |-> v, s |-> 0, age |-> 0]
WrittenToExpire(v, exp) ==
    [has |-> TRUE, v |-> v, s |-> IF Given(exp) THEN exp[1] ELSE 0, age |-> 0]

IdleUpd ==
    [pc |-> "idle", bind |-> PlainBinding, key |-> <<>>, partial |-> JsNull,
     argexp |-> <<>>, existing |-> JsNull]

\* a completed call: its full key, value argument, expireSeconds argument,
\* the binding's cacheExpired, what it returned; for a write, whether the
\* key had an expiration before it; for update's write, what had become of
\* the record since update's read ("none", "lost", "gone")
Event(op, fk, arg, exp, dflt, ret, hadTtl, race) ==
    [op |-> op, fk |-> fk, arg |-> arg, exp |-> exp, dflt |-> dflt,
     ret |-> ret, hadTtl |-> hadTtl, race |-> race]
NoEvent == Event("none", <<>>, JsNull, <<>>, <<>>, JsNull, FALSE, "none")

Idle(p) == upd[p].pc = "idle"

FieldOf(v, f) == IF HasKey(OwnEntries(v), f) THEN Lookup(OwnEntries(v), f) ELSE JsUndefined

\* the fields in which the record now stored differs from the record an
\* update has read, and which the update's partial does not set
LostFields(now, seen, partial) ==
    {f \in KeysOf(OwnEntries(now)) \cup KeysOf(OwnEntries(seen)) :
        /\ f \notin KeysOf(OwnEntries(partial))
        /\ ~DeepEqual(FieldOf(now, f), FieldOf(seen, f))}

HadTtl(s, fk) == s[fk].present /\ s[fk].ttl # NoTtl

-----------------------------------------------------------------------------
(* The connection manager (services/config.ts).  A handle is a client that *)
(* createClient has made: handles[h] is [st, conn, cfg] with st the state  *)
(* of its socket ("connecting", "ready", "reconnecting", "closed"), conn   *)
(* the state of the promise its connect() returned ("pending",             *)
(* "resolved", "rejected") and cfg the pool configuration it was made      *)
(* with.  Every handle's event handlers write the one flag isConnected.    *)

\* `redisClient = null`
NoClient == 0

Callers == {"c1", "c2"}
Tasks == Callers \cup {"startup"}

\* a variable of process.env: <<>> when it is not set, <<w>> when it is
\* set to the string w (a sequence; <<>> is the empty string)
Unset == <<>>
SetTo(w) == <<w>>
\* a variable read as a condition: set, and not to the empty string
Truthy(x) == x # Unset /\ x[1] # <<>>

\* REDIS_URL, REDIS_PORT, REDIS_CONNECT_TIMEOUT, REDIS_KEEP_ALIVE,
\* REDIS_KEEP_ALIVE_DELAY, REDIS_LAZY_CONNECT, REDIS_MAX_RETRIES
NoEnv ==
    [url |-> Unset, port |-> Unset, connectTimeout |-> Unset, keepAlive |-> Unset,
     keepAliveDelay |-> Unset, lazyConnect |-> Unset, maxRetries |-> Unset]
RemoteUrl == <<"r", "e", "d", "i", "s", ":", "/", "/", "h", ":", "6">>
\* `redis://localhost:`
LocalPrefix ==
    <<"r", "e", "d", "i", "s", ":", "/", "/",
      "l", "o", "c", "a", "l", "h", "o", "s", "t", ":">>
UrlEnv == [NoEnv EXCEPT !.url = SetTo(RemoteUrl)]

\* process.env of the manager's specification: REDIS_URL set or not
Envs == {NoEnv, UrlEnv}

\* the values the variables take: url and port
EndpointEnvs ==
    {[NoEnv EXCEPT !.url = u, !.port = q] :
        u \in {Unset, SetTo(<<>>), SetTo(RemoteUrl)},
        q \in {Unset, SetTo(<<>>), SetTo(<<"6", "3", "8", "0">>)}}

\* the values the variables take: the pool variables, with REDIS_URL set
TrueText == <<"t", "r", "u", "e">>
FalseText == <<"f", "a", "l", "s", "e">>
PoolEnvs ==
    {[UrlEnv EXCEPT !.connectTimeout = ct, !.keepAlive = ka, !.keepAliveDelay = kd,
                    !.lazyConnect = lz, !.maxRetries = mr] :
        ct \in {Unset, SetTo(<<>>), SetTo(<<"5", "0", "0">>), SetTo(<<"a", "b">>)},
        ka \in {Unset, SetTo(<<>>), SetTo(TrueText), SetTo(FalseText)},
        kd \in {Unset, SetTo(<<"0">>)},
        lz \in {Unset, SetTo(TrueText), SetTo(FalseText)},
        mr \in {Unset, SetTo(<<"3">>)}}

\* parseInt(w, 10): leading white space, a sign, then the digits there
\* are; NaN when there is none
JsNaN == [t |-> "nan"]
ParseInt(w) ==
    LET t == TrimStart(w)
        i == IF CharAt(t, 1) \in {"-", "+"} THEN 2 ELSE 1
        j == NumberEnd(t, i)
    IN  IF j = i THEN JsNaN
        ELSE JsNum((IF CharAt(t, 1) = "-" THEN -1 ELSE 1) * DigitsVal(t, i, j - 1))

\* poolConfig arguments: none, or one that sets connectTimeout
PoolArgs ==
    {JsUndefined, JsObj(<< <<Chars("connectTimeout"), JsNum(5000)>> >>)}

\* poolConfig arguments that set some fields, and all of them
EnvPoolArgs ==
    {JsUndefined,
     JsObj(<< <<Chars("connectTimeout"), JsNum(5000)>> >>),
     JsObj(<< <<Chars("keepAlive"), JsBool(FALSE)>>,
              <<Chars("keepAliveInitialDelay"), JsNum(1000)>>,
              <<Chars("lazyConnect"), JsBool(TRUE)>>,
              <<Chars("maxRetriesPerRequest"), JsNum(3)>> >>)}

\* the defaults of finalPoolConfig
PoolDefaults ==
    JsObj(<< <<Chars("connectTimeout"), JsNum(10000)>>,
             <<Chars("keepAlive"), JsBool(TRUE)>>,
             <<Chars("keepAliveInitialDelay"), JsNum(0)>>,
             <<Chars("lazyConnect"), JsBool(FALSE)>>,
             <<Chars("maxRetriesPerRequest"), JsNum(10)>> >>)

\* getPoolConfigFromEnv()
GetPoolConfigFromEnv(e) ==
    LET c1 == IF Truthy(e.connectTimeout)
              THEN Put(<<>>, Chars("connectTimeout"), ParseInt(e.connectTimeout[1]))
              ELSE <<>>
        c2 == IF e.keepAlive # Unset
              THEN Put(c1, Chars("keepAlive"), JsBool(e.keepAlive[1] = TrueText))
              ELSE c1
        c3 == IF Truthy(e.keepAliveDelay)
              THEN Put(c2, Chars("keepAliveInitialDelay"), ParseInt(e.keepAliveDelay[1]))
              ELSE c2
        c4 == IF e.lazyConnect = SetTo(TrueText)
              THEN Put(c3, Chars("lazyConnect"), JsBool(TRUE))
              ELSE c3
        c5 == IF Truthy(e.maxRetries)
              THEN Put(c4, Chars("maxRetriesPerRequest"), ParseInt(e.maxRetries[1]))
              ELSE c4
    IN  JsObj(c5)

EnvPoolConfig == GetPoolConfigFromEnv(env)

\* { ...defaults, ...envPoolConfig, ...poolConfig }
FinalPoolConfig_EnvWins(poolConfig) ==
    Spread(Spread(PoolDefaults, poolConfig), EnvPoolConfig)

FinalPoolConfig(poolConfig) == Spread(Spread(PoolDefaults, EnvPoolConfig), poolConfig)

\* REDIS_PORT ? `redis://localhost:${REDIS_PORT}` : REDIS_URL
RedisUrl_UrlFirst(e) ==
    IF Truthy(e.url) THEN e.url
    ELSE IF Truthy(e.port) THEN SetTo(LocalPrefix \o e.port[1])
    ELSE Unset

RedisUrl(e) ==
    IF Truthy(e.port) THEN SetTo(LocalPrefix \o e.port[1]) ELSE e.url

\* a reconnectStrategy given as a function: 50 ms twice, then an Error
JsFn == [t |-> "fn"]
CustomStrategy(retries) == IF retries >= 2 THEN JsError("custom") ELSE JsNum(50)

\* poolConfig arguments with a reconnectStrategy: false, a number, a function
StrategyArgs ==
    {JsUndefined,
     JsObj(<< <<Chars("reconnectStrategy"), JsBool(FALSE)>> >>),
     JsObj(<< <<Chars("reconnectStrategy"), JsNum(500)>> >>),
     JsObj(<< <<Chars("reconnectStrategy"), JsFn>> >>)}

Min(a, b) == IF a < b THEN a ELSE b

\* the strategy of initializeRedis when finalPoolConfig has none
DefaultStrategy_Early(retries) ==
    IF retries >= 10 THEN JsError("Too many reconnection attempts")
    ELSE JsNum(Min(retries * 100, 3000))

DefaultStrategy(retries) ==
    IF retries > 10 THEN JsError("Too many reconnection attempts")
    ELSE JsNum(Min(retries * 100, 3000))

\* socketConfig.reconnectStrategy applied by the client to the number of
\* retries: a delay in ms (a number), or no reconnection (false, an Error)
ShouldReconnect(cfg, retries) ==
    LET given == FieldOf(cfg, Chars("reconnectStrategy")) IN
    IF given = JsUndefined THEN DefaultStrategy(retries)
    ELSE IF given = JsFn THEN CustomStrategy(retries)
    ELSE given

\* the least j >= i with w[j] in cs, Len(w) + 1 when there is none
RECURSIVE IndexFrom(_, _, _)
IndexFrom(w, i, cs) ==
    IF i > Len(w) \/ w[i] \in cs THEN i ELSE IndexFrom(w, i + 1, cs)

\* where a match of /:[^:@]+@/ that starts at i ends, 0 when none does
MaskEnd(w, i) ==
    LET j == IndexFrom(w, i + 1, {":", "@"}) IN
    IF w[i] = ":" /\ j <= Len(w) /\ w[j] = "@" /\ j > i + 1 THEN j ELSE 0

\* redisUrl.replace(/:[^:@]+@/, ":****@"): the first match is replaced
Redact(w) ==
    LET starts == {i \in 1..Len(w) : MaskEnd(w, i) # 0} IN
    IF starts = {} THEN w
    ELSE LET i == CHOOSE k \in starts : \A m \in starts : k <= m IN
         SubSeq(w, 1, i - 1) \o <<":", "*", "*", "*", "*", "@">>
             \o SubSeq(w, MaskEnd(w, i) + 1, Len(w))

\* createClient(clientOptions): the client of the endpoint url, made from
\* the argument poolConfig; retries counts its failed attempts to connect
\* since it was last ready, delay is the wait before the attempt under way.
\* log is what the console has been given of the endpoint by the
\* initialization that made the client and by its handlers: at first the
\* line `Initializing Redis client with URL: ...`
NewHandle(poolConfig) ==
    [st |-> "connecting", conn |-> "pending", cfg |-> FinalPoolConfig(poolConfig),
     url |-> RedisUrl(env)[1], arg |-> poolConfig, retries |-> 0, delay |-> 0,
     log |-> {Redact(RedisUrl(env)[1])}]

\* a call in flight: the handle whose connect() or quit() it awaits, its
\* poolConfig, and for configurePool the handle it has disconnected
IdleTask ==
    [op |-> "none", pc |-> "idle", h |-> NoClient, cfg |-> JsUndefined, old |-> NoClient]
Awaiting(op, pc, h, cfg) ==
    [op |-> op, pc |-> pc, h |-> h, cfg |-> cfg, old |-> NoClient]

\* a completed manager call: its poolConfig argument, the handle it
\* returned, or the error it threw ("config", "connect", "null", "quit")
Done(op, arg, ret, err) == [op |-> op, arg |-> arg, ret |-> ret, err |-> err]
NoCall == Done("none", JsUndefined, NoClient, "none")

\* `redisClient && isConnected`
Connected == redisClient # NoClient /\ isConnected

OpenHandles == {h \in 1..Len(handles) : handles[h].st # "closed"}

\* the handles made, and the ones calls in flight are still to make
Budget ==
    Len(handles)
    + Cardinality({t \in Tasks : task[t].op = "configure"
                                  /\ task[t].pc \in {"quit", "quitOk"}})

\* initializeRedis(poolConfig) up to its await of connect(): it throws
\* without an endpoint, returns when connected, else makes a client, puts
\* it in redisClient and starts to connect
InitializeRedis(poolConfig, rc, ic, hs) ==
    IF ~Truthy(RedisUrl(env)) THEN [out |-> "configError", rc |-> rc, hs |-> hs]
    ELSE IF rc # NoClient /\ ic THEN [out |-> "skip", rc |-> rc, hs |-> hs]
    ELSE [out |-> "await", rc |-> Len(hs) + 1, hs |-> Append(hs, NewHandle(poolConfig))]

\* getRedisClient(poolConfig), up to its return or its await
GetRedisClient_AlwaysInit(t, poolConfig) ==
    /\ task[t].pc = "idle" /\ Budget < MaxHandles
    /\ Truthy(RedisUrl(env))
    /\ redisClient' = Len(handles) + 1
    /\ handles' = Append(handles, NewHandle(poolConfig))
    /\ task' = [task EXCEPT ![t] = Awaiting("get", "connect", Len(handles) + 1, poolConfig)]
    /\ UNCHANGED <<isConnected, cevt, env, storeVars>>

GetRedisClient(t, poolConfig) ==
    /\ task[t].pc = "idle"
    /\ IF redisClient = NoClient \/ ~isConnected
       THEN LET r == InitializeRedis(poolConfig, redisClient, isConnected, handles) IN
            IF r.out = "configError"
            THEN /\ cevt' = Done("get", poolConfig, NoClient, "config")
                 /\ UNCHANGED <<redisClient, handles, task>>
            ELSE /\ Budget < MaxHandles
                 /\ redisClient' = r.rc
                 /\ handles' = r.hs
                 /\ task' = [task EXCEPT ![t] = Awaiting("get", "connect", r.rc, poolConfig)]
                 /\ cevt' = cevt
       ELSE /\ cevt' = Done("get", poolConfig, redisClient, "none")
            /\ UNCHANGED <<redisClient, handles, task>>
    /\ UNCHANGED <<isConnected, env, storeVars>>

\* the continuation of `await redisClient.connect()`: initializeRedis
\* returns, or logs `Failed to connect to Redis` and throws, and so does
\* its caller
ResumeConnect(t) ==
    /\ task[t].pc = "connect"
    /\ handles[task[t].h].conn # "pending"
    /\ cevt' = IF handles[task[t].h].conn = "rejected"
               THEN Done(task[t].op, task[t].cfg, NoClient, "connect")
               ELSE IF task[t].op = "get"
               THEN IF redisClient = NoClient THEN Done("get", task[t].cfg, NoClient, "null")
                    ELSE Done("get", task[t].cfg, redisClient, "none")
               ELSE Done(task[t].op, task[t].cfg, NoClient, "none")
    /\ task' = [task EXCEPT ![t] = IdleTask]
    /\ handles' = IF handles[task[t].h].conn = "rejected"
                  THEN [handles EXCEPT ![task[t].h].log =
                           @ \cup {Redact(handles[task[t].h].url)}]
                  ELSE handles
    /\ UNCHANGED <<redisClient, isConnected, env, storeVars>>

\* disconnect(), up to its return or its await of quit(); quit() on a
\* closed client rejects at once
Disconnect(t) ==
    /\ task[t].pc = "idle"
    /\ IF Connected
       THEN IF handles[redisClient].st = "closed"
            THEN /\ cevt' = Done("disconnect", JsUndefined, NoClient, "quit")
                 /\ task' = task
            ELSE /\ task' = [task EXCEPT ![t] =
                                Awaiting("disconnect", "quit", redisClient, JsUndefined)]
                 /\ cevt' = cevt
       ELSE /\ cevt' = Done("disconnect", JsUndefined, NoClient, "none")
            /\ task' = task
    /\ UNCHANGED <<redisClient, isConnected, handles, env, storeVars>>


ConfigurePool_InitOnly(t, poolConfig) ==
    /\ task[t].pc = "idle"
    /\ LET r == InitializeRedis(poolConfig, redisClient, isConnected, handles) IN
       IF r.out = "configError"
       THEN /\ cevt' = Done("configure", poolConfig, NoClient, "config")
            /\ UNCHANGED <<redisClient, handles, task>>
       ELSE IF r.out = "skip"
       THEN /\ cevt' = Done("configure", poolConfig, NoClient, "none")
            /\ UNCHANGED <<redisClient, handles, task>>
       ELSE /\ Budget < MaxHandles
            /\ redisClient' = r.rc
            /\ handles' = r.hs
            /\ task' = [task EXCEPT ![t] =
                           Awaiting("configure", "connect", r.rc, poolConfig)]
            /\ cevt' = cevt
    /\ UNCHANGED <<isConnected, env, storeVars>>

\* configurePool(poolConfig), up to its first await: disconnect() when
\* connected, else initializeRedis(poolConfig)
ConfigurePool(t, poolConfig) ==
    /\ task[t].pc = "idle"
    /\ IF Connected
       THEN /\ IF handles[redisClient].st = "closed"
               THEN /\ cevt' = Done("configure", poolConfig, NoClient, "quit")
                    /\ task' = task
               ELSE /\ Budget < MaxHandles
                    /\ task' = [task EXCEPT ![t] =
                                   [Awaiting("configure", "quit", redisClient, poolConfig)
                                       EXCEPT !.old = redisClient]]
                    /\ cevt' = cevt
            /\ UNCHANGED <<redisClient, handles>>
       ELSE LET r == InitializeRedis(poolConfig, redisClient, isConnected, handles) IN
            IF r.out = "configError"
            THEN /\ cevt' = Done("configure", poolConfig, NoClient, "config")
                 /\ UNCHANGED <<redisClient, handles, task>>
            ELSE /\ Budget < MaxHandles
                 /\ redisClient' = r.rc
                 /\ handles' = r.hs
                 /\ task' = [task EXCEPT ![t] =
                                Awaiting("configure", "connect", r.rc, poolConfig)]
                 /\ cevt' = cevt
    /\ UNCHANGED <<isConnected, env, storeVars>>

\* the continuation of `await redisClient.quit()` in disconnect: a
\* rejection is thrown on; else the state is reset, and configurePool goes
\* on to initializeRedis(poolConfig)
ResumeQuit(t) ==
    /\ task[t].pc \in {"quitOk", "quitFailed"}
    /\ IF task[t].pc = "quitFailed"
       THEN /\ cevt' = Done(task[t].op, task[t].cfg, NoClient, "quit")
            /\ task' = [task EXCEPT ![t] = IdleTask]
            /\ UNCHANGED <<redisClient, isConnected, handles>>
       ELSE IF task[t].op = "disconnect"
       THEN /\ isConnected' = FALSE
            /\ redisClient' = NoClient
            /\ cevt' = Done("disconnect", JsUndefined, NoClient, "none")
            /\ task' = [task EXCEPT ![t] = IdleTask]
            /\ handles' = handles
       ELSE LET r == InitializeRedis(task[t].cfg, NoClient, FALSE, handles) IN
            /\ isConnected' = FALSE
            /\ redisClient' = r.rc
            /\ handles' = r.hs
            /\ task' = [task EXCEPT ![t] =
                           [Awaiting("configure", "connect", r.rc, task[t].cfg)
                               EXCEPT !.old = task[t].old]]
            /\ cevt' = cevt
    /\ UNCHANGED <<env, storeVars>>

\* the calls whose quit() on handle h is in flight, all but t
OtherQuits(t, h) == {q \in Tasks : q # t /\ task[q].pc = "quit" /\ task[q].h = h}

\* QUIT is answered and the socket of h closes: "end" is emitted, the
\* quit() of t resolves, any other quit() on h is rejected
QuitDone(t) ==
    /\ task[t].pc = "quit"
    /\ handles[task[t].h].st = "ready"
    /\ handles' = [handles EXCEPT ![task[t].h].st = "closed"]
    /\ isConnected' = FALSE
    /\ task' = [q \in Tasks |->
                  IF q = t THEN [task[q] EXCEPT !.pc = "quitOk"]
                  ELSE IF q \in OtherQuits(t, task[t].h)
                  THEN [task[q] EXCEPT !.pc = "quitFailed"]
                  ELSE task[q]]
    /\ UNCHANGED <<redisClient, cevt, env, storeVars>>

HandleReady_FromClosed(h) ==
    /\ handles[h].st \in {"connecting", "reconnecting", "closed"}
    /\ handles' = [handles EXCEPT ![h].st = "ready", ![h].conn = "resolved",
                                  ![h].retries = 0, ![h].delay = 0,
                                  ![h].log = @ \cup {handles[h].url}]
    /\ isConnected' = TRUE
    /\ UNCHANGED <<redisClient, task, cevt, env, storeVars>>

\* the socket of h connects: "ready" is emitted, connect() resolves; the
\* handler logs `connected and ready at url: ` + redisUrl
HandleReady(h) ==
    /\ handles[h].st \in {"connecting", "reconnecting"}
    /\ handles' = [handles EXCEPT ![h].st = "ready", ![h].conn = "resolved",
                                  ![h].retries = 0, ![h].delay = 0,
                                  ![h].log = @ \cup {handles[h].url}]
    /\ isConnected' = TRUE
    /\ UNCHANGED <<redisClient, task, cevt, env, storeVars>>

\* the socket of a ready h fails: "error" is emitted, the commands in
\* flight (a quit) are rejected; h reconnects by itself ("reconnecting")
\* unless its strategy gives no delay
HandleError(h) ==
    /\ handles[h].st = "ready"
    /\ handles' = [handles EXCEPT ![h].st =
                      IF ShouldReconnect(handles[h].cfg, 0).t = "num"
                      THEN "reconnecting" ELSE "closed"]
    /\ isConnected' = FALSE
    /\ task' = [q \in Tasks |->
                  IF task[q].pc = "quit" /\ task[q].h = h
                  THEN [task[q] EXCEPT !.pc = "quitFailed"] ELSE task[q]]
    /\ UNCHANGED <<redisClient, cevt, env, storeVars>>

\* an attempt of h to connect fails and the strategy is asked with the
\* number of retries so far.  A delay: "error" and "reconnecting" are
\* emitted and h tries again after it.  No delay: h is closed for good,
\* a pending connect() rejects, the commands in flight are rejected.
AttemptFails(h) ==
    /\ handles[h].st \in {"connecting", "reconnecting"}
    /\ handles[h].retries < MaxAttempts
    /\ LET retryIn == ShouldReconnect(handles[h].cfg, handles[h].retries) IN
       IF retryIn.t = "num"
       THEN /\ handles' = [handles EXCEPT ![h].retries = @ + 1,
                                           ![h].delay = retryIn.n]
            /\ isConnected' = FALSE
            /\ task' = task
       ELSE /\ handles' = [handles EXCEPT
                             ![h].st = "closed",
                             ![h].conn = IF @ = "pending" THEN "rejected" ELSE @]
            /\ task' = [q \in Tasks |->
                          IF task[q].pc = "quit" /\ task[q].h = h
                          THEN [task[q] EXCEPT !.pc = "quitFailed"] ELSE task[q]]
            /\ isConnected' = isConnected
    /\ UNCHANGED <<redisClient, cevt, env, storeVars>>

\* AttemptFails without the count of retries: an attempt of h to connect
\* fails and the reconnect strategy gives a delay
ConnectRetry(h) ==
    /\ handles[h].st \in {"connecting", "reconnecting"}
    /\ isConnected
    /\ isConnected' = FALSE
    /\ UNCHANGED <<redisClient, handles, task, cevt, env, storeVars>>

\* AttemptFails without the count of retries: an attempt of h to connect
\* fails and the reconnect strategy gives an error
GiveUp(h) ==
    /\ handles[h].st \in {"connecting", "reconnecting"}
    /\ handles' = [handles EXCEPT
                      ![h].st = "closed",
                      ![h].conn = IF @ = "pending" THEN "rejected" ELSE @]
    /\ task' = [q \in Tasks |->
                  IF task[q].pc = "quit" /\ task[q].h = h
                  THEN [task[q] EXCEPT !.pc = "quitFailed"] ELSE task[q]]
    /\ UNCHANGED <<redisClient, isConnected, cevt, env, storeVars>>

\* the manager once the startup initialization has connected handle 1
ConnReady ==
    /\ env = UrlEnv
    /\ redisClient = 1
    /\ isConnected = TRUE
    /\ handles = <<[NewHandle(JsUndefined) EXCEPT !.st = "ready", !.conn = "resolved",
                                                  !.log = @ \cup {RemoteUrl}]>>
    /\ task = [t \in Tasks |-> IdleTask]
    /\ cevt = NoCall

StoreIdle ==
    /\ store = [fk \in FullKeys |-> Missing]
    /\ written = [fk \in FullKeys |-> NotWritten]
    /\ upd = [p \in Procs |-> IdleUpd]
    /\ evt = NoEvent

\* the module as loaded: `initializeRedis().catch(...)` has run up to its
\* await, or has thrown for want of an endpoint
Loaded ==
    /\ isConnected = FALSE
    /\ cevt = NoCall
    /\ IF ~Truthy(RedisUrl(env))
       THEN /\ redisClient = NoClient
            /\ handles = <<>>
            /\ task = [t \in Tasks |-> IdleTask]
       ELSE /\ redisClient = 1
            /\ handles = <<NewHandle(JsUndefined)>>
            /\ task = [t \in Tasks |->
                          IF t = "startup"
                          THEN Awaiting("startup", "connect", 1, JsUndefined)
                          ELSE IdleTask]
    /\ StoreIdle

\* the poolConfig arguments of the two callers: c1 passes any of PoolArgs,
\* c2 passes none
CallerArgs == ({"c1"} \X PoolArgs) \cup {<<"c2", JsUndefined>>}

InitConn == env \in Envs /\ Loaded

NextConn ==
    \/ \E c \in CallerArgs : GetRedisClient(c[1], c[2])
    \/ \E t \in Tasks : ResumeConnect(t)
    \/ \E t \in Callers : Disconnect(t)
    \/ \E c \in CallerArgs : ConfigurePool(c[1], c[2])
    \/ \E t \in Callers : ResumeQuit(t)
    \/ \E t \in Callers : QuitDone(t)
    \/ \E h \in 1..Len(handles) : HandleReady(h)
    \/ \E h \in 1..Len(handles) : HandleError(h)
    \/ \E h \in 1..Len(handles) : ConnectRetry(h)
    \/ \E h \in 1..Len(handles) : GiveUp(h)

SpecConn == InitConn /\ [][NextConn]_vars

\* the manager under every setting of process.env: the initialization at
\* startup and one caller, which makes at most one handle of its own
InitEnv == env \in EndpointEnvs \cup PoolEnvs /\ Loaded

NextEnv ==
    \/ \E cfg \in EnvPoolArgs : Len(handles) <= 1 /\ GetRedisClient("c1", cfg)
    \/ \E t \in {"c1", "startup"} : ResumeConnect(t)
    \/ \E h \in 1..Len(handles) : HandleReady(h)
    \/ \E h \in 1..Len(handles) : HandleError(h)

SpecEnv == InitEnv /\ [][NextEnv]_vars

\* the attempts to connect, counted, of the handle made at startup and
\* of one handle that a caller has made with a strategy of its own
NextRetry ==
    \/ \E cfg \in StrategyArgs : Len(handles) = 1 /\ GetRedisClient("c1", cfg)
    \/ \E t \in {"c1", "startup"} : ResumeConnect(t)
    \/ \E h \in 1..Len(handles) : HandleReady(h)
    \/ \E h \in 1..Len(handles) : HandleError(h)
    \/ \E h \in 1..Len(handles) : AttemptFails(h)

InitRetry == env = UrlEnv /\ Loaded

SpecRetry == InitRetry /\ [][NextRetry]_vars

\* REDIS_URL with and without a user and a password (a password may hold
\* a ':'), and REDIS_PORT set beside such a REDIS_URL
UrlOf(userinfo) == <<"r", ":", "/", "/">> \o userinfo \o <<"h", ":", "6">>
LogEnvs ==
    {[NoEnv EXCEPT !.url = SetTo(UrlOf(ui)), !.port = q] :
        ui \in {<<>>, <<"u", "@">>, <<"u", ":", "p", "w", "@">>, <<":", "p", "w", "@">>,
                <<"u", ":", "p", ":", "w", "@">>},
        q \in {Unset, SetTo(<<"6", "3", "8", "0">>)}}

\* what is logged of the endpoint: the initialization at startup and the
\* initializations of one caller, each handle connecting, failing to, and
\* losing its connection
InitLog == env \in LogEnvs /\ Loaded

NextLog ==
    \/ GetRedisClient("c1", JsUndefined)
    \/ \E t \in {"c1", "startup"} : ResumeConnect(t)
    \/ \E h \in 1..Len(handles) : HandleReady(h)
    \/ \E h \in 1..Len(handles) : HandleError(h)
    \/ \E h \in 1..Len(handles) : GiveUp(h)

SpecLog == InitLog /\ [][NextLog]_vars

-----------------------------------------------------------------------------
(* The operations of a binding.                                            *)

\* redis.read(key)
Read(p, b, key) ==
    /\ Connected /\ Idle(p)
    /\ LET fk == FullKey(b.table, key)
           r == CoreRead(store, b.table, key)
       IN  /\ evt' = Event("read", fk, JsNull, <<>>, <<>>, r.ret, FALSE, "none")
           /\ store' = r.s
    /\ UNCHANGED <<written, upd, connVars>>

\* redis.create(key, value, expireSeconds)
Create(p, b, key, value, expireSeconds) ==
    /\ Connected /\ Idle(p)
    /\ LET fk == FullKey(b.table, key)
           exp == EffectiveExpire(expireSeconds, b.cacheExpired)
           r == CoreCreate(store, b.table, key, value, exp)
           ok == r.ret.t # "err"
       IN  /\ store' = r.s
           /\ written' = IF ok THEN [written EXCEPT ![fk] = WrittenToExpire(value, exp)]
                         ELSE written
           /\ evt' = Event("create", fk, value, expireSeconds, b.cacheExpired,
                           r.ret, HadTtl(store, fk), "none")
    /\ UNCHANGED <<upd, connVars>>

\* redis.update(key, partial, expireSeconds), up to the end of its read:
\* it returns null when there is no record, else goes on to its write
UpdateRead_Upsert(p, b, key, partial, expireSeconds) ==
    /\ Connected /\ Idle(p)
    /\ LET fk == FullKey(b.table, key)
           existing == CoreRead(store, b.table, key).ret
       IN  /\ evt' = Event("updateRead", fk, partial, expireSeconds,
                           b.cacheExpired, JsNull, FALSE, "none")
           /\ upd' = [upd EXCEPT ![p] =
                         [pc |-> "write", bind |-> b, key |-> key,
                          partial |-> partial, argexp |-> expireSeconds,
                          existing |-> IF existing = JsNull THEN JsObj(<<>>)
                                       ELSE existing]]
    /\ UNCHANGED <<store, written, connVars>>

UpdateRead(p, b, key, partial, expireSeconds) ==
    /\ Connected /\ Idle(p)
    /\ LET fk == FullKey(b.table, key)
           existing == CoreRead(store, b.table, key).ret
       IN  IF existing = JsNull
           THEN /\ evt' = Event("update", fk, partial, expireSeconds,
                                b.cacheExpired, JsNull, FALSE, "none")
                /\ upd' = upd
           ELSE /\ evt' = Event("updateRead", fk, partial, expireSeconds,
                                b.cacheExpired, JsNull, FALSE, "none")
                /\ upd' = [upd EXCEPT ![p] =
                              [pc |-> "write", bind |-> b, key |-> key,
                               partial |-> partial, argexp |-> expireSeconds,
                               existing |-> existing]]
    /\ UNCHANGED <<store, written, connVars>>

\* redis.update, from the merge to its return: the write through create
UpdateWrite_Reread(p) ==
    /\ Connected /\ upd[p].pc = "write"
    /\ LET u == upd[p]
           fk == FullKey(u.bind.table, u.key)
           now == CoreRead(store, u.bind.table, u.key).ret
           updated == Spread(IF now = JsNull THEN u.existing ELSE now, u.partial)
           exp == EffectiveExpire(u.argexp, u.bind.cacheExpired)
           r == CoreCreate(store, u.bind.table, u.key, updated, exp)
           ok == r.ret.t # "err"
       IN  /\ store' = r.s
           /\ written' = IF ok THEN [written EXCEPT ![fk] = Written(updated)]
                         ELSE written
           /\ upd' = [upd EXCEPT ![p] = IdleUpd]
           /\ evt' = Event("update", fk, u.partial, u.argexp, u.bind.cacheExpired,
                           IF ok THEN updated ELSE r.ret, HadTtl(store, fk),
                           IF ~store[fk].present THEN "gone"
                           ELSE IF LostFields(Deserialize(store[fk].val),
                                              u.existing, u.partial) # {}
                                THEN "lost" ELSE "none")
    /\ UNCHANGED connVars

UpdateWrite(p) ==
    /\ Connected /\ upd[p].pc = "write"
    /\ LET u == upd[p]
           fk == FullKey(u.bind.table, u.key)
           updated == Spread(u.existing, u.partial)
           exp == EffectiveExpire(u.argexp, u.bind.cacheExpired)
           r == CoreCreate(store, u.bind.table, u.key, updated, exp)
           ok == r.ret.t # "err"
       IN  /\ store' = r.s
           /\ written' = IF ok THEN [written EXCEPT ![fk] = Written(updated)]
                         ELSE written
           /\ upd' = [upd EXCEPT ![p] = IdleUpd]
           /\ evt' = Event("update", fk, u.partial, u.argexp, u.bind.cacheExpired,
                           IF ok THEN updated ELSE r.ret, HadTtl(store, fk),
                           IF ~store[fk].present THEN "gone"
                           ELSE IF LostFields(Deserialize(store[fk].val),
                                              u.existing, u.partial) # {}
                                THEN "lost" ELSE "none")
    /\ UNCHANGED connVars

\* redis.delete(key)
Delete(p, b, key) ==
    /\ Connected /\ Idle(p)
    /\ LET fk == FullKey(b.table, key)
           r == CoreDelete(store, b.table, key)
       IN  /\ store' = r.s
           /\ written' = [written EXCEPT ![fk] = NotWritten]
           /\ evt' = Event("delete", fk, JsNull, <<>>, <<>>, r.ret, FALSE, "none")
    /\ UNCHANGED <<upd, connVars>>

\* redis.exists(key)
Exists(p, b, key) ==
    /\ Connected /\ Idle(p)
    /\ LET fk == FullKey(b.table, key)
           r == CoreExists(store, b.table, key)
       IN  /\ store' = r.s
           /\ evt' = Event("exists", fk, JsNull, <<>>, <<>>, r.ret, FALSE, "none")
    /\ UNCHANGED <<written, upd, connVars>>

\* redis.setExpire(key, seconds): seconds ?? cacheExpired, an error when
\* neither is given
SetExpire(p, b, key, seconds) ==
    /\ Connected /\ Idle(p)
    /\ LET fk == FullKey(b.table, key)
           expireSeconds == Nullish(seconds, b.cacheExpired)
       IN  IF ~Given(expireSeconds)
           THEN /\ evt' = Event("setExpire", fk, JsNull, seconds, b.cacheExpired,
                                JsError("Error"), FALSE, "none")
                /\ UNCHANGED <<store, written>>
           ELSE LET r == CoreSetExpire(store, b.table, key, expireSeconds[1]) IN
                /\ store' = r.s
                /\ written' = IF ~r.s[fk].present
                              THEN [written EXCEPT ![fk] = NotWritten]
                              ELSE [written EXCEPT ![fk].s = 0, ![fk].age = 0]
                /\ evt' = Event("setExpire", fk, JsNull, seconds, b.cacheExpired,
                                r.ret, HadTtl(store, fk), "none")
    /\ UNCHANGED <<upd, connVars>>

\* redis.getTtl(key)
GetTtl(p, b, key) ==
    /\ Connected /\ Idle(p)
    /\ LET fk == FullKey(b.table, key)
           r == CoreGetTtl(store, b.table, key)
       IN  /\ store' = r.s
           /\ evt' = Event("getTtl", fk, JsNull, <<>>, <<>>, r.ret, FALSE, "none")
    /\ UNCHANGED <<written, upd, connVars>>

\* one second passes in the store: a key whose time is up is gone
Tick ==
    /\ \E fk \in FullKeys : store[fk].present /\ store[fk].ttl > 0
    /\ store' = [fk \in FullKeys |->
                    IF store[fk].present /\ store[fk].ttl > 0
                    THEN IF store[fk].ttl = 1 THEN Missing
                         ELSE [store[fk] EXCEPT !.ttl = @ - 1]
                    ELSE store[fk]]
    /\ written' = [fk \in FullKeys |->
                    LET age == IF written[fk].s > 0 THEN written[fk].age + 1 ELSE 0 IN
                    IF store[fk].present /\ store[fk].ttl = 1
                    THEN [NotWritten EXCEPT !.s = written[fk].s, !.age = age]
                    ELSE IF store[fk].present /\ store[fk].ttl > 0
                    THEN [written[fk] EXCEPT !.age = age]
                    ELSE written[fk]]
    /\ evt' = Event("tick", <<>>, JsNull, <<>>, <<>>, JsNull, FALSE, "none")
    /\ UNCHANGED <<upd, connVars>>

Init == StoreIdle /\ ConnReady

Next ==
    \/ \E p \in Procs, c \in Calls : Read(p, c[1], c[2])
    \/ \E p \in Procs, c \in Calls, v \in RecordVals, e \in ExpireArgs :
            Create(p, c[1], c[2], v, e)
    \/ \E p \in Procs, c \in Calls, a \in UpdateArgs :
            UpdateRead(p, c[1], c[2], a[1], a[2])
    \/ \E p \in Procs : UpdateWrite(p)
    \/ \E p \in Procs, c \in Calls : Delete(p, c[1], c[2])
    \/ \E p \in Procs, c \in Calls : Exists(p, c[1], c[2])
    \/ \E p \in Procs, c \in Calls, sec \in SecondsArgs : SetExpire(p, c[1], c[2], <<sec>>)
    \/ \E p \in Procs, c \in Calls : SetExpire(p, c[1], c[2], <<>>)
    \/ \E p \in Procs, c \in Calls : GetTtl(p, c[1], c[2])
    \/ Tick

Spec == Init /\ [][Next]_vars

\* one caller, values of every kind, one key
NextCodec ==
    \/ \E v \in CodecVals, e \in {<<>>, <<1>>} :
            Create("p1", CodecCall[1], CodecCall[2], v, e)
    \/ Read("p1", CodecCall[1], CodecCall[2])
    \/ Delete("p1", CodecCall[1], CodecCall[2])
    \/ Tick

SpecCodec == Init /\ [][NextCodec]_vars

\* The shape every service has: `const client = await getRedisClient()`
\* before the try, its command in the try, `catch (error) { console.error;
\* throw error }`.  got is what getRedisClient gave (a handle, or the error
\* it threw), reply the error the command was rejected with (undefined:
\* the store answered), r the outcome of the command on the store.
Service_Swallow(s, got, reply, r) ==
    IF got.t = "err" THEN [s |-> s, ret |-> got]
    ELSE IF reply.t = "err" THEN [s |-> s, ret |-> JsNull]
    ELSE r

Service(s, got, reply, r) ==
    IF got.t = "err" THEN [s |-> s, ret |-> got]
    ELSE IF reply.t = "err" THEN [s |-> s, ret |-> reply]
    ELSE r

\* what the getRedisClient that completed last gave its caller
Got == IF cevt.err # "none" THEN JsError(cevt.err) ELSE JsNum(cevt.ret)

\* how a command sent through handle h can end besides an answer of the
\* store: a closed client rejects it, a socket can fail under it
Rejections(h) ==
    IF handles[h].st = "closed" THEN {JsError("ClientClosedError")}
    ELSE {JsUndefined, JsError("SocketClosedUnexpectedlyError")}

ServiceOps == {"read", "create", "delete", "exists", "setExpire", "getTtl"}

\* a service other than update, called by p through binding b: the
\* getRedisClient it awaited has completed, its command ends with reply
Served(p, op, b, key, value, expireSeconds, reply) ==
    /\ Idle(p) /\ cevt.op = "get"
    /\ op = "setExpire" => Given(Nullish(expireSeconds, b.cacheExpired))
    /\ LET fk == FullKey(b.table, key)
           exp == EffectiveExpire(expireSeconds, b.cacheExpired)
           r == CASE op = "read" -> CoreRead(store, b.table, key)
                  [] op = "create" -> CoreCreate(store, b.table, key, value, exp)
                  [] op = "delete" -> CoreDelete(store, b.table, key)
                  [] op = "exists" -> CoreExists(store, b.table, key)
                  [] op = "setExpire" -> CoreSetExpire(store, b.table, key, exp[1])
                  [] op = "getTtl" -> CoreGetTtl(store, b.table, key)
           out == Service(store, Got, reply, r)
       IN  /\ store' = out.s
           /\ written' = IF out.ret.t = "err" \/ op \in {"read", "exists", "getTtl"}
                         THEN written
                         ELSE IF op = "create"
                         THEN [written EXCEPT ![fk] = WrittenToExpire(value, exp)]
                         ELSE IF ~out.s[fk].present
                         THEN [written EXCEPT ![fk] = NotWritten]
                         ELSE [written EXCEPT ![fk].s = 0, ![fk].age = 0]
           /\ evt' = Event(op, fk, value, expireSeconds, b.cacheExpired, out.ret,
                           HadTtl(store, fk), "none")
    /\ cevt' = NoCall
    /\ UNCHANGED <<upd, redisClient, isConnected, handles, task, env>>

\* update, called by p through binding b, up to the end of its read
ServedUpdateRead(p, b, key, partial, expireSeconds, reply) ==
    /\ Idle(p) /\ cevt.op = "get"
    /\ LET fk == FullKey(b.table, key)
           out == Service(store, Got, reply, CoreRead(store, b.table, key))
       IN  IF out.ret.t = "err" \/ out.ret = JsNull
           THEN /\ evt' = Event("update", fk, partial, expireSeconds, b.cacheExpired,
                                out.ret, FALSE, "none")
                /\ upd' = upd
           ELSE /\ evt' = Event("updateRead", fk, partial, expireSeconds,
                                b.cacheExpired, JsNull, FALSE, "none")
                /\ upd' = [upd EXCEPT ![p] =
                              [pc |-> "write", bind |-> b, key |-> key,
                               partial |-> partial, argexp |-> expireSeconds,
                               existing |-> out.ret]]
    /\ cevt' = NoCall
    /\ UNCHANGED <<store, written, redisClient, isConnected, handles, task, env>>

\* update from the merge on: the getRedisClient of its create has
\* completed, the SET / SETEX ends with reply
ServedUpdateWrite(p, reply) ==
    /\ upd[p].pc = "write" /\ cevt.op = "get"
    /\ LET u == upd[p]
           fk == FullKey(u.bind.table, u.key)
           updated == Spread(u.existing, u.partial)
           exp == EffectiveExpire(u.argexp, u.bind.cacheExpired)
           out == Service(store, Got, reply,
                          CoreCreate(store, u.bind.table, u.key, updated, exp))
           ok == out.ret.t # "err"
       IN  /\ store' = out.s
           /\ written' = IF ok THEN [written EXCEPT ![fk] = Written(updated)]
                         ELSE written
           /\ upd' = [upd EXCEPT ![p] = IdleUpd]
           /\ evt' = Event("update", fk, u.partial, u.argexp, u.bind.cacheExpired,
                           IF ok THEN updated ELSE out.ret, HadTtl(store, fk), "none")
    /\ cevt' = NoCall
    /\ UNCHANGED <<redisClient, isConnected, handles, task, env>>

\* the replies a service called now can get
RepliesNow == IF cevt.err = "none" /\ cevt.ret # NoClient THEN Rejections(cevt.ret)
              ELSE {JsUndefined}

\* the record the caller of SpecFault creates
FaultVal == JsObj(<< <<FieldA, JsNum(1)>> >>)

\* one caller of the services with a manager whose initializations and
\* connections can fail.  Every service first awaits a getRedisClient;
\* what happens to the connection between the return of getRedisClient
\* and the end of the command is the command's reply.
NextFault ==
    \/ cevt.op # "get" /\ Len(handles) <= 1 /\ GetRedisClient("c1", JsUndefined)
    \/ cevt.op # "get" /\ ResumeConnect("c1")
    \/ cevt.op # "get" /\ \E h \in 1..Len(handles) : HandleReady(h)
    \/ cevt.op # "get" /\ \E h \in 1..Len(handles) : HandleError(h)
    \/ cevt.op # "get" /\ \E h \in 1..Len(handles) : GiveUp(h)
    \/ \E op \in ServiceOps, c \in Calls, e \in {<<>>, <<1>>}, reply \in RepliesNow :
          Served("p1", op, c[1], c[2], FaultVal, e, reply)
    \/ \E c \in Calls, v \in PartialVals, reply \in RepliesNow :
          ServedUpdateRead("p1", c[1], c[2], v, <<>>, reply)
    \/ \E reply \in RepliesNow : ServedUpdateWrite("p1", reply)

InitFault == env \in Envs /\ Loaded

SpecFault == InitFault /\ [][NextFault]_vars

\* one caller with three (binding, key) pairs that name two entries,
\* a:b:c (twice) and a:c
FrameCalls == Calls \cup {CodecCall}

\* an operation of caller p through binding c[1] on key c[2]
OpOn(p, c) ==
    \/ Read(p, c[1], c[2])
    \/ \E v \in RecordVals, e \in ExpireArgs : Create(p, c[1], c[2], v, e)
    \/ \E a \in UpdateArgs : UpdateRead(p, c[1], c[2], a[1], a[2])
    \/ upd[p].bind = c[1] /\ upd[p].key = c[2] /\ UpdateWrite(p)
    \/ Delete(p, c[1], c[2])
    \/ Exists(p, c[1], c[2])
    \/ \E sec \in SecondsArgs : SetExpire(p, c[1], c[2], <<sec>>)
    \/ GetTtl(p, c[1], c[2])

NextFrame ==
    \/ \E c \in FrameCalls : OpOn("p1", c)
    \/ Tick

SpecFrame == Init /\ [][NextFrame]_vars

-----------------------------------------------------------------------------
(* Properties of the CRUD operations.                                      *)

\* the call that completed last wrote the key
WroteOk == evt.op \in {"create", "update"} /\ evt.ret.t \in {"undef", "obj"}

\* the caller whose update makes its write in this step
Writes(p) == upd[p].pc = "write" /\ upd'[p].pc = "idle"

\* C1 as stated: a read of a key whose last change was create(k, v), for
\* any value v, returns a value deep-equal to v.
C1_RoundTripEveryValue ==
    (evt.op = "read" /\ written[evt.fk].has)
        => DeepEqual(evt.ret, written[evt.fk].v)

\* the values the codec gives back as written: mappings and arrays of JSON
\* values, and strings that are not read as JSON (the trimmed string is
\* not bracketed by {} or [], or it does not parse)
ReadBackAsWritten(v) ==
    \/ v.t \in {"obj", "arr"}
    \/ v.t = "str" /\ (~LooksJson(v.s) \/ ~JsonParse(v.s).ok)

\* C1 amended: a read of a key whose last change was create(k, v) returns
\* a value deep-equal to v when v is a mapping or an array of JSON values,
\* or a string that is not read as JSON.
C1_RoundTripCodecValues ==
    (evt.op = "read" /\ written[evt.fk].has /\ ReadBackAsWritten(written[evt.fk].v))
        => DeepEqual(evt.ret, written[evt.fk].v)

C1_Witness ==
    /\ evt.op = "read"
    /\ written[evt.fk].has
    /\ written[evt.fk].v.t = "obj"
    /\ Len(written[evt.fk].v.e) = 2
    /\ DeepEqual(evt.ret, written[evt.fk].v)

\* C2: the write of an update on an existing mapping record returns and
\* stores a record whose fields are those of the record read and of the
\* partial, each field of the partial with the partial's value and every
\* other field with the value read; a read of the key then returns that
\* record.
C2_UpdateMerges ==
    [][\A p \in Procs :
        Writes(p) =>
            LET old == upd[p].existing
                part == upd[p].partial
                new == evt'.ret
            IN  /\ new.t = "obj"
                /\ KeysOf(new.e) = KeysOf(old.e) \cup KeysOf(part.e)
                /\ \A f \in KeysOf(part.e) : FieldOf(new, f) = FieldOf(part, f)
                /\ \A f \in KeysOf(old.e) \ KeysOf(part.e) :
                        FieldOf(new, f) = FieldOf(old, f)
                /\ DeepEqual(CoreRead(store', upd[p].bind.table, upd[p].key).ret, new)
      ]_vars

C2_Witness ==
    /\ evt.op = "update"
    /\ evt.ret.t = "obj"
    /\ KeysOf(evt.ret.e) = {FieldA, FieldB}
    /\ KeysOf(evt.arg.e) = {FieldA}
    /\ FieldOf(evt.ret, FieldA) = JsNum(2)
    /\ store[evt.fk].present
    /\ DeepEqual(Deserialize(store[evt.fk].val), evt.ret)

\* C3: an update on a key that does not exist returns null and writes
\* nothing: the store is unchanged, no write is left pending, and exists
\* is still false.
C3_UpdateAbsentNoWrite ==
    [][\A p \in Procs, c \in Calls, a \in UpdateArgs :
        (/\ ~store[FullKey(c[1].table, c[2])].present
         /\ Idle(p) /\ evt'.op \in {"update", "updateRead"}
         /\ evt'.fk = FullKey(c[1].table, c[2])
         /\ UpdateRead(p, c[1], c[2], a[1], a[2]))
        => /\ evt'.op = "update" /\ evt'.ret = JsNull
           /\ store' = store
           /\ upd' = upd
           /\ CoreExists(store', c[1].table, c[2]).ret = JsBool(FALSE)
      ]_vars

C3_Witness ==
    /\ evt.op = "update"
    /\ evt.ret = JsNull
    /\ ~store[evt.fk].present
    /\ \A p \in Procs : Idle(p)

\* C4: update is not atomic.  Its write stores the merge of the record
\* its read returned, whatever the key holds by then: every field that a
\* create or update completed since the read has changed, and that the
\* partial does not set, is put back to the value read, and the update
\* reports success.  (The witness is the lost update itself.)
C4_StaleWriteWins ==
    [][\A p \in Procs :
        Writes(p) =>
            LET fk == FullKey(upd[p].bind.table, upd[p].key)
                now == IF store[fk].present THEN Deserialize(store[fk].val)
                       ELSE JsObj(<<>>)
                final == Deserialize(store'[fk].val)
            IN  /\ evt'.ret.t = "obj"
                /\ store'[fk].present
                /\ \A f \in LostFields(now, upd[p].existing, upd[p].partial) :
                        /\ FieldOf(final, f) = FieldOf(upd[p].existing, f)
                        /\ FieldOf(final, f) # FieldOf(now, f)
      ]_vars

C4_LostUpdate ==
    /\ evt.op = "update"
    /\ evt.race = "lost"
    /\ evt.ret.t = "obj"
    /\ store[evt.fk].present
    /\ DeepEqual(Deserialize(store[evt.fk].val), evt.ret)

\* C8 as stated: setExpire with seconds that is not a positive integer
\* fails with an error (and so sends nothing to the store).
C8_NonPositiveSecondsRejected ==
    (evt.op = "setExpire" /\ Given(evt.exp) /\ evt.exp[1] <= 0)
        => evt.ret.t = "err"

\* C9: after a create or update with no expireSeconds (none passed to the
\* service) the key has no expiration and getTtl returns null, whatever
\* expiration it had before; with expireSeconds the entry holds the new
\* value and that expiration as soon as it holds the value.
C9_ExpireRule ==
    (WroteOk /\ ~Given(evt.dflt)) =>
        LET e == store[evt.fk]
            value == IF evt.op = "create" THEN evt.arg ELSE evt.ret
        IN  /\ e.present
            /\ e.val = Serialize(value)
            /\ IF Given(evt.exp)
               THEN /\ e.ttl = evt.exp[1]
                    /\ \A c \in Calls : FullKey(c[1].table, c[2]) = evt.fk =>
                            CoreGetTtl(store, c[1].table, c[2]).ret = JsNum(evt.exp[1])
               ELSE /\ e.ttl = NoTtl
                    /\ \A c \in Calls : FullKey(c[1].table, c[2]) = evt.fk =>
                            CoreGetTtl(store, c[1].table, c[2]).ret = JsNull

C9_Witness ==
    /\ WroteOk
    /\ evt.op = "create"
    /\ ~Given(evt.dflt) /\ ~Given(evt.exp)
    /\ evt.hadTtl
    /\ store[evt.fk].ttl = NoTtl

\* C10: through a binding with cacheExpired d, a create or update without
\* expireSeconds writes the key with expiration d; an expireSeconds
\* argument is used instead of d (one the store refuses fails the call);
\* with neither the key is written without expiration.
C10_DefaultExpire ==
    /\ WroteOk =>
        store[evt.fk].ttl =
            (IF Given(evt.exp) THEN evt.exp[1]
             ELSE IF Given(evt.dflt) THEN evt.dflt[1] ELSE NoTtl)
    /\ (evt.op \in {"create", "update"} /\ Given(evt.exp) /\ evt.exp[1] <= 0)
            => evt.ret.t = "err"

C10_Witness ==
    /\ WroteOk
    /\ evt.op = "update"
    /\ ~Given(evt.exp) /\ Given(evt.dflt)
    /\ store[evt.fk].ttl = evt.dflt[1]

\* a call of disconnect() by t completes in this step, by a return or a throw
DisconnectCompletes(t) ==
    \/ Disconnect(t) /\ task'[t].pc = "idle"
    \/ ResumeQuit(t) /\ task[t].op = "disconnect"

\* C5: at any time at most one handle that createClient has made is open,
\* whatever the interleaving of the callers.
C5_SingleOpenHandle == Cardinality(OpenHandles) <= 1

\* C6: when a call of disconnect() completes, by a return or by a throw,
\* the manager holds no handle and is not connected.
C6_DisconnectResets ==
    [][\A t \in Callers :
          DisconnectCompletes(t) => (redisClient' = NoClient /\ ~isConnected')]_vars

\* C7: getRedisClient(poolConfig) called while the manager is connected
\* returns the handle the manager holds, at once: it makes no handle, and
\* the manager, the handle and the handle's configuration stay as they
\* were whatever poolConfig is.
C7_ConnectedGetReturnsHandle ==
    [][\A t \in Callers, cfg \in PoolArgs :
          (GetRedisClient(t, cfg) /\ Connected) =>
              (/\ cevt' = Done("get", cfg, redisClient, "none")
               /\ UNCHANGED <<redisClient, isConnected, handles, task>>)]_vars

\* a connected getRedisClient with a poolConfig returned handle 1, made
\* at startup without one, and no other handle has been made
C7_Witness ==
    /\ cevt.op = "get" /\ cevt.err = "none" /\ cevt.arg # JsUndefined
    /\ cevt.ret = 1 /\ redisClient = 1 /\ isConnected
    /\ Len(handles) = 1
    /\ handles[1].cfg = FinalPoolConfig(JsUndefined)

\* the calls (binding, key) that address full key fk
CallsOn(fk) == {c \in Calls : FullKey(c[1].table, c[2]) = fk}

\* C11: a delete returns true exactly when the key exists as the DEL is
\* done, and leaves the key absent: of the deletes that follow one another
\* on an existing key, in any order of the callers, the first returns true
\* and the others false, and a delete of a key that does not exist
\* returns false.
C11_DeleteTrueOnce ==
    [][evt'.op = "delete" =>
          /\ evt'.ret = JsBool(store[evt'.fk].present)
          /\ ~store'[evt'.fk].present
          /\ \A c \in CallsOn(evt'.fk) :
                CoreDelete(store', c[1].table, c[2]).ret = JsBool(FALSE)
      ]_vars

\* a delete of an existing key returned true and the key is gone
C11_Witness ==
    /\ evt.op = "delete"
    /\ evt.ret = JsBool(TRUE)
    /\ ~store[evt.fk].present
    /\ ~written[evt.fk].has

\* C12: a read of a key that was never written, or that was deleted (or
\* has expired) and not written since, returns null.
C12_ReadAbsentNull ==
    (evt.op = "read" /\ ~written[evt.fk].has) => evt.ret = JsNull

C12_Witness ==
    /\ evt.op = "read"
    /\ ~written[evt.fk].has
    /\ ~store[evt.fk].present
    /\ evt.ret = JsNull

\* the seconds a setExpire call asked for: seconds ?? cacheExpired
AskedSeconds(e) == Nullish(e.exp, e.dflt)

\* C13: when setExpire has returned true for seconds s > 0, a getTtl of
\* the key made before anything else happens returns a number t with
\* 0 < t <= s.
C13_TtlAfterSetExpire ==
    (/\ evt.op = "setExpire" /\ evt.ret = JsBool(TRUE)
     /\ Given(AskedSeconds(evt)) /\ AskedSeconds(evt)[1] > 0)
    => \A c \in CallsOn(evt.fk) :
          LET t == CoreGetTtl(store, c[1].table, c[2]).ret IN
          t.t = "num" /\ 0 < t.n /\ t.n <= AskedSeconds(evt)[1]

C13_Witness ==
    /\ evt.op = "setExpire" /\ evt.ret = JsBool(TRUE)
    /\ evt.exp = <<MaxExpire>>
    /\ ~evt.hadTtl
    /\ store[evt.fk].present
    /\ RedisTtl(store, evt.fk) = MaxExpire

\* C14: a setExpire that reaches the store returns false for a key that
\* does not exist and changes nothing in the store; for a key that
\* exists it returns true.
C14_SetExpireOnAbsent ==
    [][(evt'.op = "setExpire" /\ evt'.ret.t # "err") =>
          IF store[evt'.fk].present
          THEN evt'.ret = JsBool(TRUE)
          ELSE /\ evt'.ret = JsBool(FALSE)
               /\ store' = store
               /\ ~store'[evt'.fk].present
      ]_vars

C14_Witness ==
    /\ evt.op = "setExpire"
    /\ evt.ret = JsBool(FALSE)
    /\ Given(AskedSeconds(evt)) /\ AskedSeconds(evt)[1] > 0
    /\ ~store[evt.fk].present

\* C15: getTtl returns null for a key that exists without expiration and
\* for a key that does not exist; for a key with an expiration it returns
\* the seconds left, a number that is not negative.
C15_GetTtlNullOrNumber ==
    evt.op = "getTtl" =>
        IF store[evt.fk].present /\ store[evt.fk].ttl # NoTtl
        THEN evt.ret.t = "num" /\ evt.ret.n >= 0 /\ evt.ret.n = store[evt.fk].ttl
        ELSE evt.ret = JsNull

\* getTtl returned null for a key that exists and does not expire
C15_Witness ==
    /\ evt.op = "getTtl"
    /\ evt.ret = JsNull
    /\ store[evt.fk].present
    /\ store[evt.fk].ttl = NoTtl

\* C16: a key that create wrote with expireSeconds = s, and that no call
\* has written or re-timed since, is absent once s seconds have passed:
\* read returns null and exists returns false.
C16_ExpiredKeyAbsent ==
    \A fk \in FullKeys :
        (written[fk].s > 0 /\ written[fk].age >= written[fk].s) =>
            /\ ~store[fk].present
            /\ \A c \in CallsOn(fk) :
                  /\ CoreRead(store, c[1].table, c[2]).ret = JsNull
                  /\ CoreExists(store, c[1].table, c[2]).ret = JsBool(FALSE)

\* a read returned null after the s seconds of a create had passed
C16_Witness ==
    /\ evt.op = "read"
    /\ evt.ret = JsNull
    /\ written[evt.fk].s = MaxExpire
    /\ written[evt.fk].age = MaxExpire

-----------------------------------------------------------------------------
(* Properties of the connection manager's configuration.                   *)

\* the step makes a handle and puts it in redisClient
MakesHandle == Len(handles') = Len(handles) + 1 /\ redisClient' = Len(handles')

PoolFields ==
    {Chars("connectTimeout"), Chars("keepAlive"), Chars("keepAliveInitialDelay"),
     Chars("lazyConnect"), Chars("maxRetriesPerRequest")}

\* the environment variable of a field, and the value its text stands for
EnvSetting(e, f) ==
    CASE f = Chars("connectTimeout") -> e.connectTimeout
      [] f = Chars("keepAlive") -> e.keepAlive
      [] f = Chars("keepAliveInitialDelay") -> e.keepAliveDelay
      [] f = Chars("lazyConnect") -> e.lazyConnect
      [] f = Chars("maxRetriesPerRequest") -> e.maxRetries
EnvValue(e, f) ==
    IF f \in {Chars("keepAlive"), Chars("lazyConnect")}
    THEN JsBool(EnvSetting(e, f)[1] = TrueText)
    ELSE ParseInt(EnvSetting(e, f)[1])

\* the built-in default of a field
DefaultValue(f) ==
    CASE f = Chars("connectTimeout") -> JsNum(10000)
      [] f = Chars("keepAlive") -> JsBool(TRUE)
      [] f = Chars("keepAliveInitialDelay") -> JsNum(0)
      [] f = Chars("lazyConnect") -> JsBool(FALSE)
      [] f = Chars("maxRetriesPerRequest") -> JsNum(10)

\* C18 as stated: in the configuration of every handle, every field has
\* the value of the poolConfig argument if the argument has the field,
\* else the value of its environment variable if the variable is set,
\* else the default.
C18_LayeredBySetVariables ==
    \A h \in 1..Len(handles), f \in PoolFields :
        FieldOf(handles[h].cfg, f) =
            IF HasKey(OwnEntries(handles[h].arg), f) THEN FieldOf(handles[h].arg, f)
            ELSE IF EnvSetting(env, f) # Unset THEN EnvValue(env, f)
            ELSE DefaultValue(f)

\* a variable counts: REDIS_KEEP_ALIVE when it is set, the others when
\* they are set to a text that is not empty
EnvCounts(e, f) ==
    IF f = Chars("keepAlive") THEN EnvSetting(e, f) # Unset
    ELSE Truthy(EnvSetting(e, f))

\* C18 amended: the same, where the variable of keepAlive counts whenever
\* it is set (the empty text gives false) and the other variables count
\* only when set to a text that is not empty.
C18_LayeredByCountedVariables ==
    \A h \in 1..Len(handles), f \in PoolFields :
        FieldOf(handles[h].cfg, f) =
            IF HasKey(OwnEntries(handles[h].arg), f) THEN FieldOf(handles[h].arg, f)
            ELSE IF EnvCounts(env, f) THEN EnvValue(env, f)
            ELSE DefaultValue(f)

\* a handle made with an argument that sets connectTimeout, under an
\* environment that sets connectTimeout and keepAlive: one field from
\* each layer
C18_Witness ==
    /\ env.connectTimeout = SetTo(<<"5", "0", "0">>)
    /\ env.keepAlive = SetTo(FalseText)
    /\ env.maxRetries = Unset
    /\ Len(handles) = 2
    /\ handles[2].arg = JsObj(<< <<Chars("connectTimeout"), JsNum(5000)>> >>)
    /\ FieldOf(handles[2].cfg, Chars("connectTimeout")) = JsNum(5000)
    /\ FieldOf(handles[2].cfg, Chars("keepAlive")) = JsBool(FALSE)
    /\ FieldOf(handles[2].cfg, Chars("maxRetriesPerRequest")) = JsNum(10)
    /\ FieldOf(handles[1].cfg, Chars("connectTimeout")) = JsNum(500)

\* a failed attempt of handle h to connect is answered in this step
AttemptAnswered(h) ==
    /\ handles[h].st \in {"connecting", "reconnecting"}
    /\ handles'[h] # handles[h]
    /\ handles'[h].st # "ready"

-----------------------------------------------------------------------------
(* Decoding on read.                                                       *)

\* the string, trimmed, starts with { and ends with }, or starts with [
\* and ends with ]
Bracketed(w) ==
    LET t == Trim(w) IN
    \/ t # <<>> /\ t[1] = "{" /\ t[Len(t)] = "}"
    \/ t # <<>> /\ t[1] = "[" /\ t[Len(t)] = "]"

\* C23: a read of a stored string never throws; it returns the string
\* parsed as JSON only when the trimmed string is bracketed by {} or []
\* and the string parses, and the stored string itself in every other
\* case; so a string that create wrote and that is not bracketed is read
\* back as it was written.
C23_DecodeOrPassThrough ==
    (evt.op = "read" /\ store[evt.fk].present)
        => LET w == store[evt.fk].val IN
           /\ evt.ret.t # "err"
           /\ evt.ret # JsStr(w) => (Bracketed(w) /\ JsonParse(w).ok
                                     /\ evt.ret = JsonParse(w).v)
           /\ ~(Bracketed(w) /\ JsonParse(w).ok) => evt.ret = JsStr(w)
           /\ (/\ written[evt.fk].has /\ written[evt.fk].v.t = "str"
               /\ ~Bracketed(written[evt.fk].v.s)) => evt.ret = written[evt.fk].v

\* a stored string that is bracketed and is not JSON has been read back
\* unchanged
C23_Witness ==
    /\ evt.op = "read" /\ store[evt.fk].present
    /\ Bracketed(store[evt.fk].val) /\ ~JsonParse(store[evt.fk].val).ok
    /\ evt.ret = JsStr(store[evt.fk].val)
    /\ written[evt.fk].has /\ written[evt.fk].v = evt.ret

-----------------------------------------------------------------------------
(* Update against delete.                                                  *)

\* C28: when a delete of a key has completed and the next thing done to
\* the key is the write of an update that had read the record before the
\* delete, the key is still absent after that write.
C28_UpdateKeepsDeleted ==
    [][\A p \in Procs :
          (/\ evt.op = "delete"
           /\ upd[p].pc = "write"
           /\ FullKey(upd[p].bind.table, upd[p].key) = evt.fk
           /\ Writes(p))
          => ~store'[evt.fk].present]_vars

-----------------------------------------------------------------------------
(* The entry an operation works on.                                        *)

\* the step is an operation of caller p through binding c[1] on key c[2]:
\* OpOn(p, c), the arguments read from the record of the completed call
StepOn(p, c) ==
    /\ evt'.fk = FullKey(c[1].table, c[2])
    /\ \/ evt'.op = "read" /\ Read(p, c[1], c[2])
       \/ evt'.op = "create" /\ Create(p, c[1], c[2], evt'.arg, evt'.exp)
       \/ /\ evt'.op \in {"update", "updateRead"} /\ Idle(p)
          /\ UpdateRead(p, c[1], c[2], evt'.arg, evt'.exp)
       \/ /\ evt'.op = "update" /\ upd[p].pc = "write"
          /\ upd[p].bind = c[1] /\ upd[p].key = c[2] /\ UpdateWrite(p)
       \/ evt'.op = "delete" /\ Delete(p, c[1], c[2])
       \/ evt'.op = "exists" /\ Exists(p, c[1], c[2])
       \/ evt'.op = "setExpire" /\ SetExpire(p, c[1], c[2], evt'.exp)
       \/ evt'.op = "getTtl" /\ GetTtl(p, c[1], c[2])

\* C29: an operation through a binding with namespace N on key K changes
\* the value and the expiration of no entry of the store but the one
\* named N:K, and what it returns is what the service returns for that
\* entry alone.
C29_OnlyTheNamedEntry ==
    [][\A c \in FrameCalls :
          StepOn("p1", c)
          => LET name == c[1].table \o <<":">> \o c[2] IN
             /\ evt'.fk = name
             /\ \A fk \in DOMAIN store : fk # name => store'[fk] = store[fk]
             /\ evt'.op = "read"
                    => evt'.ret = CoreRead([k \in {name} |-> store[name]],
                                           c[1].table, c[2]).ret]_vars

\* both entries are there, each with an expiration, and the last
\* operation has written one of them
C29_Witness ==
    /\ \A fk \in FullKeys : store[fk].present /\ store[fk].ttl > 0
    /\ evt.op \in {"create", "update", "setExpire"}
    /\ evt.ret.t # "err"

-----------------------------------------------------------------------------
(* What getRedisClient returns.                                            *)

\* the step in which the getRedisClient of caller t returns a handle
GetReturns(t) ==
    /\ cevt'.op = "get" /\ cevt'.err = "none"
    /\ \/ task[t].pc = "idle" /\ Connected /\ GetRedisClient(t, cevt'.arg)
       \/ task[t].pc = "connect" /\ task[t].op = "get" /\ ResumeConnect(t)

\* C24: the handle that getRedisClient returns is connected when it is
\* returned and is the handle the manager holds, also when calls of
\* getRedisClient, or one and the initialization at startup, overlap
\* while a connection is being made.
C24_ReturnedHandleReady ==
    [][\A t \in Callers :
          GetReturns(t)
          => /\ cevt'.ret = redisClient'
             /\ handles'[cevt'.ret].st = "ready"]_vars

-----------------------------------------------------------------------------
(* Connected again after a loss of the connection.                         *)

\* the handles whose socket becomes ready in the step
BecomeReady == {h \in 1..Len(handles) : handles[h].st # "ready" /\ handles'[h].st = "ready"}

\* C25 as stated: isConnected turns true only through a handle that an
\* initialization (of getRedisClient, configurePool or the startup) is
\* connecting, never through a handle that had lost its connection.
C25_ConnectedOnlyByInitialization ==
    [][(~isConnected /\ isConnected')
          => \A h \in BecomeReady : handles[h].st = "connecting"]_vars

\* C25 amended: isConnected turns true only in a step in which the socket
\* of a handle becomes ready, and that handle is either one that an
\* initialization is connecting or one that had lost its connection and
\* reconnects by itself, its reconnect strategy giving a delay; a handle
\* that is closed is never ready again.
C25_ConnectedByReadyHandle ==
    [][/\ (~isConnected /\ isConnected')
          => /\ BecomeReady # {}
             /\ \A h \in BecomeReady :
                   \/ handles[h].st = "connecting"
                   \/ /\ handles[h].st = "reconnecting"
                      /\ ShouldReconnect(handles[h].cfg, 0).t = "num"
       /\ \A h \in 1..Len(handles) :
             handles[h].st = "closed" => handles'[h].st = "closed"]_vars

\* the one handle lost its connection while a quit() was awaited on it
\* (the quit was rejected) and is ready again, the manager connected,
\* before the caller of disconnect has resumed and with no other call made
C25_Witness ==
    /\ Len(handles) = 1 /\ handles[1].st = "ready" /\ isConnected
    /\ redisClient = 1
    /\ \E t \in Callers : task[t].pc = "quitFailed" /\ task[t].h = 1
    /\ \A t \in Tasks : task[t].pc \notin {"connect"}
    /\ cevt.op \in {"none", "startup"}

-----------------------------------------------------------------------------
(* After a failed initialization.                                          *)

\* the step in which the initialization that task t awaits throws the
\* error of its connect()
InitFails(t) ==
    /\ task[t].pc = "connect"
    /\ handles[task[t].h].conn = "rejected"
    /\ ResumeConnect(t)

\* C26: when the initialization of a getRedisClient or of the startup
\* fails to connect, the error is thrown to the caller and the manager is
\* left not connected; and a getRedisClient called while the manager holds
\* a handle whose connect() has failed makes a new handle and connects it.
C26_FailedInitLeavesRetriable ==
    [][\A t \in Tasks :
          /\ InitFails(t) => (cevt'.err = "connect" /\ ~isConnected')
          /\ (/\ t \in Callers /\ task[t].pc = "idle"
              /\ redisClient # NoClient
              /\ handles[redisClient].conn = "rejected"
              /\ \E cfg \in PoolArgs : GetRedisClient(t, cfg))
             => MakesHandle]_vars

-----------------------------------------------------------------------------
(* disconnect against getRedisClient.                                      *)

\* C27: when disconnect resumes after its quit() and the manager holds
\* another handle, still open, that a getRedisClient has made meanwhile,
\* disconnect leaves that handle in the manager; and no getRedisClient
\* throws 'client is null' after its connect() has succeeded.
C27_DisconnectKeepsNewHandle ==
    [][/\ \A t \in Callers :
             (/\ task[t].op = "disconnect" /\ task[t].pc = "quitOk"
              /\ redisClient \notin {NoClient, task[t].h}
              /\ handles[redisClient].st # "closed"
              /\ ResumeQuit(t))
             => redisClient' = redisClient
       /\ cevt'.err # "null"]_vars

-----------------------------------------------------------------------------
(* Logging of the endpoint.                                                *)

\* the password of a URL: in the authority (from `//` to the next `/`),
\* what stands between the first ':' of the user information (what
\* precedes the last '@') and that '@'; <<>> when there is none
LastAt(w) ==
    LET ats == {i \in 1..Len(w) : w[i] = "@"} IN
    IF ats = {} THEN 0 ELSE CHOOSE i \in ats : \A j \in ats : j <= i

Credential(url) ==
    LET from == IndexFrom(url, 1, {"/"}) + 2
        authority == SubSeq(url, from, IndexFrom(url, from, {"/"}) - 1)
        at == LastAt(authority)
        colon == IndexFrom(authority, 1, {":"})
    IN  IF at = 0 \/ colon > at THEN <<>>
        ELSE SubSeq(authority, colon + 1, at - 1)

\* the text w holds the text part
Contains(w, part) ==
    \E i \in 1..(Len(w) - Len(part) + 1) : SubSeq(w, i, i + Len(part) - 1) = part

\* C22: nothing that is logged of the endpoint of a handle (on
\* initializing, on ready, on a failure to connect) holds the password of
\* its URL, the credential between ':' and '@'.
C22_NoCredentialLogged ==
    \A h \in 1..Len(handles) : \A line \in handles[h].log :
        Credential(handles[h].url) # <<>> => ~Contains(line, Credential(handles[h].url))


\* ---------------------------------------------------------------------
\* Failures of the handle and of the store
\* ---------------------------------------------------------------------

\* the step is a service of p1 ending with reply, with the arguments the
\* event of the step records
ServedStep(reply) ==
    \/ /\ evt'.op \in ServiceOps
       /\ \E c \in Calls :
             /\ FullKey(c[1].table, c[2]) = evt'.fk
             /\ Served("p1", evt'.op, c[1], c[2], evt'.arg, evt'.exp, reply)
    \/ /\ evt'.op \in {"update", "updateRead"}
       /\ \/ \E c \in Calls :
                /\ FullKey(c[1].table, c[2]) = evt'.fk
                /\ ServedUpdateRead("p1", c[1], c[2], evt'.arg, evt'.exp, reply)
          \/ ServedUpdateWrite("p1", reply)

\* C21: when getRedisClient failed, or the command a service issued
\* failed, the service (read, create, update, delete, exists,
\* setExpire, getTtl) fails to its caller with that error and returns no
\* normal result.
C21_FailurePropagates ==
    [][\A reply \in {JsUndefined, JsError("ClientClosedError"),
                     JsError("SocketClosedUnexpectedlyError")} :
          ( /\ cevt.op = "get" /\ cevt' = NoCall
            /\ reply \in RepliesNow
            /\ Got.t = "err" \/ reply.t = "err"
            /\ ServedStep(reply) )
          => /\ evt'.op # "updateRead"
             /\ evt'.ret = IF Got.t = "err" THEN Got ELSE reply]_vars

\* a read of an entry that is in the store failed with the error of the
\* connection attempt
C21_Witness ==
    /\ evt.op = "read"
    /\ evt.ret = JsError("connect")
    /\ store[evt.fk].present

====
